---- MODULE Spec2Model ----
(***************************************************************************)
(* Model of VariableHue.py: a frame is split into PROCESS chunks along     *)
(* axis 1 (numpy.array_split), chunk i is written into the shared dict     *)
(* DATA[i], PROCESS Listener processes poll their cell, transform the      *)
(* chunk with their own shift, put {name: result} on QUEUE_OUT and clear   *)
(* the cell; the main program takes PROCESS messages per frame, orders     *)
(* them by int(key) and concatenates them with numpy.hstack.               *)
(*                                                                         *)
(* A frame is the sequence of its lines along axis 1 (each line stands for *)
(* array[:, j, :]).  The shift is counted in steps of 0.01.  The field     *)
(* cyc of a cell or message is a history tag (which fan-out wrote the      *)
(* chunk: 0 for the loop before the listeners start, FRAME + 1 in the main *)
(* loop); the program itself never reads it.  The field late of a message  *)
(* is a history tag too: whether the event was set when it was put.        *)
(*                                                                         *)
(* Every access to DATA is one request to the manager process and every    *)
(* put or get on a queue is one step, so each numbered line of Listener.run*)
(* and each pass of a loop of the main program is one action; the          *)
(* processes interleave between them.  QUEUE_OUT delivers in the order of  *)
(* the puts.  The pygame display, the clock and the PAUSE key do not touch *)
(* the state modelled here; the QUIT event is an input of PollEvents.      *)
(***************************************************************************)
EXTENDS Integers, Sequences, FiniteSets, TLC

\* ---------------------------------------------------------------- bounds
MaxProcess == 2
MaxWidth == 2
MaxFrames == 1
LongFrames == 101
SplitMaxProcess == 4
SplitMaxWidth == 5
PixelMax == 1
HueLevels == 3

VARIABLES
  PROCESS,      \* multiprocessing.cpu_count()
  array,        \* the frame, as the sequence of its lines along axis 1
  frameCap,     \* number of frames after which the QUIT event has arrived
  QUEUE_IN,     \* multiprocessing.Queue(): lists of chunks
  QUEUE_OUT,    \* multiprocessing.Queue(): {listener_name: result}
  EVENT,        \* multiprocessing.Event()
  DATA,         \* MANAGER.dict(): listener_name -> chunk or None
  new_array,    \* the list of chunks taken from QUEUE_IN
  cpc,          \* position of the main program
  ci,           \* loop variable i of the main program
  STOP_GAME,
  FRAME,
  temp,         \* dict str(key) -> value, as a list of pairs in insertion order
  SCREEN,       \* the array last given to blit_array
  ListenerShift,\* class attribute Listener.shift
  wpc,          \* position of each Listener
  shift,        \* self.shift of each Listener (steps of 0.01)
  rgb_array,    \* local variable of Listener.run
  written,      \* history: the cell writes <<i, cyc>> of the main program
  emitted,      \* history: number of puts per <<i, cyc>>
  collected,    \* history: number of gets per <<i, cyc>>
  got,          \* history: <<key, cyc>> of the messages taken for this frame
  pixel,        \* the arguments r, g, b of a call of shift_hue
  rgb_color     \* what the call returned, in 1/10000 of a channel unit

vars == <<PROCESS, array, frameCap, QUEUE_IN, QUEUE_OUT, EVENT, DATA, new_array,
          cpc, ci, STOP_GAME, FRAME, temp, SCREEN, ListenerShift, wpc, shift,
          rgb_array, written, emitted, collected, got, pixel, rgb_color>>

\* ------------------------------------------------------------ pure parts
None == [none |-> TRUE]

Names == 0 .. (MaxProcess - 1)

\* str(key) of a non-negative int: its decimal digits
RECURSIVE Str(_)
Str(k) == IF k < 10 THEN <<k>> ELSE Append(Str(k \div 10), k % 10)

\* int(s) of a digit string
RECURSIVE IntOf(_)
IntOf(s) == IF Len(s) = 0 THEN 0
          ELSE 10 * IntOf(SubSeq(s, 1, Len(s) - 1)) + s[Len(s)]

\* variant of SectionSize: the extras go to the last sections
SectionSizeLast(Ntotal, Nsections, i) ==
  IF i > Nsections - (Ntotal % Nsections)
    THEN (Ntotal \div Nsections) + 1
    ELSE Ntotal \div Nsections

\* numpy.array_split: the size of section i (1-based) of an axis of extent
\* Ntotal cut in Nsections: extras sections of Neach + 1, then Neach
SectionSize(Ntotal, Nsections, i) ==
  IF i <= Ntotal % Nsections
    THEN (Ntotal \div Nsections) + 1
    ELSE Ntotal \div Nsections

\* numpy.array_split: div_points = cumsum([0] + section_sizes)
RECURSIVE DivPoint(_, _, _)
DivPoint(Ntotal, Nsections, i) ==
  IF i = 0 THEN 0
  ELSE DivPoint(Ntotal, Nsections, i - 1) + SectionSize(Ntotal, Nsections, i)

\* variant of SubArray: equal sections of Neach lines, the remainder dropped
SubArrayShort(ary, Nsections, i) ==
  SubSeq(ary, (i - 1) * (Len(ary) \div Nsections) + 1,
              i * (Len(ary) \div Nsections))

\* numpy.array_split(ary, Nsections, 1): sub-array i is ary[:, st:end]
SubArray(ary, Nsections, i) ==
  SubSeq(ary, DivPoint(Len(ary), Nsections, i - 1) + 1,
              DivPoint(Len(ary), Nsections, i))

split_non_equal(ary, process) ==
  [i \in 1 .. process |-> SubArray(ary, process, i)]

\* numpy.hstack of a list of arrays: concatenation along axis 1
RECURSIVE hstack(_)
hstack(element) ==
  IF Len(element) = 0 THEN <<>>
  ELSE Head(element) \o hstack(Tail(element))

\* numpy.vectorize(self.shift_hue) over the chunk: every line is rotated by
\* the listener's shift; the shape of the chunk is kept
Transform(chunk, s) == [j \in 1 .. Len(chunk) |-> <<chunk[j], s>>]

\* temp[k] = v on a dict kept in insertion order
RECURSIVE DictSet(_, _, _)
DictSet(d, k, v) ==
  IF Len(d) = 0 THEN <<[key |-> k, value |-> v]>>
  ELSE IF Head(d).key = k THEN <<[key |-> k, value |-> v]>> \o Tail(d)
  ELSE <<Head(d)>> \o DictSet(Tail(d), k, v)

\* sorted(temp.items(), key=lambda item: (int(item[0]), item[1])): the keys
\* of a dict are distinct, so the order is that of int(key)
RECURSIVE Insert(_, _)
Insert(item, s) ==
  IF Len(s) = 0 THEN <<item>>
  ELSE IF IntOf(item.key) <= IntOf(Head(s).key) THEN <<item>> \o s
  ELSE <<Head(s)>> \o Insert(item, Tail(s))

\* variant of SortedItems: the items in the dict's insertion order, unsorted
SortedItemsArrival(d) == d

RECURSIVE SortedItems(_)
SortedItems(d) ==
  IF Len(d) = 0 THEN <<>> ELSE Insert(Head(d), SortedItems(Tail(d)))

\* element.append(value) for each sorted item
Element(d) == [j \in 1 .. Len(SortedItems(d)) |-> SortedItems(d)[j].value.a]

\* history counters: a function on the pairs counted so far
Cnt(f, x) == IF x \in DOMAIN f THEN f[x] ELSE 0

Bump(f, x) == (x :> (Cnt(f, x) + 1)) @@ f

\* ---------------------------------------------------------------- Init
CanonFrame(w) == [j \in 1 .. w |-> j]

InitRest ==
  /\ QUEUE_IN = <<>>
  /\ QUEUE_OUT = <<>>
  /\ EVENT = FALSE
  /\ DATA = <<>>
  /\ new_array = <<>>
  /\ cpc = "split"
  /\ ci = 0
  /\ STOP_GAME = FALSE
  /\ FRAME = 0
  /\ temp = <<>>
  /\ SCREEN = <<>>
  /\ ListenerShift = 0
  /\ wpc = [i \in Names |-> "unborn"]
  /\ shift = [i \in Names |-> 0]
  /\ rgb_array = [i \in Names |-> None]
  /\ written = {}
  /\ emitted = <<>>
  /\ collected = <<>>
  /\ got = <<>>
  /\ rgb_color = <<>>

\* the frame has at least one line per process (SIZE is 200 x 200): every
\* chunk given to numpy.vectorize is non-empty
Init ==
  /\ pixel = <<0, 0, 0>>
  /\ PROCESS \in 1 .. MaxProcess
  /\ array \in {CanonFrame(w) : w \in PROCESS .. MaxWidth}
  /\ frameCap = MaxFrames
  /\ InitRest

\* ------------------------------------------------------- main program
\* numpy.array_split raises ValueError('number sections must be larger than
\* 0.') when Nsections <= 0; SplitSurface.__init__ asserts only the types of
\* its arguments, and an axis of extent 0 is cut into empty sub-arrays
SplitFails(ary, process) == process <= 0

\* SplitSurface(PROCESS, array, QUEUE_IN); an exception ends the program
SplitSurface ==
  /\ cpc = "split"
  /\ IF SplitFails(array, PROCESS)
       THEN QUEUE_IN' = QUEUE_IN /\ cpc' = "error"
       ELSE /\ QUEUE_IN' = Append(QUEUE_IN, split_non_equal(array, PROCESS))
            /\ cpc' = "qget"
  /\ UNCHANGED <<pixel, rgb_color, PROCESS, array, frameCap, QUEUE_OUT, EVENT, DATA, new_array,
                 ci, STOP_GAME, FRAME, temp, SCREEN, ListenerShift, wpc, shift,
                 rgb_array, written, emitted, collected, got>>

\* new_array = QUEUE_IN.get(); i = 0
QueueInGet ==
  /\ cpc = "qget"
  /\ QUEUE_IN # <<>>
  /\ new_array' = Head(QUEUE_IN)
  /\ QUEUE_IN' = Tail(QUEUE_IN)
  /\ ci' = 0
  /\ cpc' = "preassign"
  /\ UNCHANGED <<pixel, rgb_color, PROCESS, array, frameCap, QUEUE_OUT, EVENT, DATA,
                 STOP_GAME, FRAME, temp, SCREEN, ListenerShift, wpc, shift,
                 rgb_array, written, emitted, collected, got>>

\* for array in new_array: DATA[i] = array; i += 1   (before the listeners)
PreAssign ==
  /\ cpc = "preassign"
  /\ ci < Len(new_array)
  /\ DATA' = (ci :> [a |-> new_array[ci + 1], cyc |-> 0]) @@ DATA
  /\ written' = written \cup {<<ci, 0>>}
  /\ IF ci + 1 = Len(new_array)
       THEN cpc' = "start" /\ ci' = 0
       ELSE cpc' = cpc /\ ci' = ci + 1
  /\ UNCHANGED <<pixel, rgb_color, PROCESS, array, frameCap, QUEUE_IN, QUEUE_OUT, EVENT, new_array,
                 STOP_GAME, FRAME, temp, SCREEN, ListenerShift, wpc, shift,
                 rgb_array, emitted, collected, got>>

\* for i in range(PROCESS): Listener.shift = 0.0; Listener(i, ...).start()
StartListener ==
  /\ cpc = "start"
  /\ ci < PROCESS
  /\ ListenerShift' = 0
  /\ shift' = [shift EXCEPT ![ci] = ListenerShift']
  /\ wpc' = [wpc EXCEPT ![ci] = "test"]
  /\ IF ci + 1 = PROCESS
       THEN cpc' = "loop" /\ ci' = 0
       ELSE cpc' = cpc /\ ci' = ci + 1
  /\ UNCHANGED <<pixel, rgb_color, PROCESS, array, frameCap, QUEUE_IN, QUEUE_OUT, EVENT, DATA,
                 new_array, STOP_GAME, FRAME, temp, SCREEN, rgb_array,
                 written, emitted, collected, got>>

\* while not STOP_GAME:
WhileTest ==
  /\ cpc = "loop"
  /\ cpc' = IF STOP_GAME THEN "stop" ELSE "events"
  /\ UNCHANGED <<pixel, rgb_color, PROCESS, array, frameCap, QUEUE_IN, QUEUE_OUT, EVENT, DATA,
                 new_array, ci, STOP_GAME, FRAME, temp, SCREEN, ListenerShift,
                 wpc, shift, rgb_array, written, emitted, collected, got>>

\* for event in pygame.event.get(): QUIT or ESCAPE sets STOP_GAME; i = 0
PollEvents ==
  /\ cpc = "events"
  /\ \E quit \in BOOLEAN :
       /\ (FRAME + 1 >= frameCap) => quit
       /\ STOP_GAME' = quit
  /\ ci' = 0
  /\ cpc' = "assign"
  /\ UNCHANGED <<pixel, rgb_color, PROCESS, array, frameCap, QUEUE_IN, QUEUE_OUT, EVENT, DATA,
                 new_array, FRAME, temp, SCREEN, ListenerShift,
                 wpc, shift, rgb_array, written, emitted, collected, got>>

\* variant of Assign: the collection starts after the first cell is written
AssignEarly ==
  /\ cpc = "assign"
  /\ ci < Len(new_array)
  /\ DATA' = [DATA EXCEPT ![ci] = [a |-> new_array[ci + 1], cyc |-> FRAME + 1]]
  /\ written' = written \cup {<<ci, FRAME + 1>>}
  /\ cpc' = "collect" /\ ci' = 0 /\ temp' = <<>> /\ got' = <<>>
  /\ UNCHANGED <<pixel, rgb_color, PROCESS, array, frameCap, QUEUE_IN, QUEUE_OUT, EVENT, new_array,
                 STOP_GAME, FRAME, SCREEN, ListenerShift, wpc, shift,
                 rgb_array, emitted, collected>>

\* for array in new_array: DATA[i] = array; i += 1 ; then temp = {}
Assign ==
  /\ cpc = "assign"
  /\ ci < Len(new_array)
  /\ DATA' = [DATA EXCEPT ![ci] = [a |-> new_array[ci + 1], cyc |-> FRAME + 1]]
  /\ written' = written \cup {<<ci, FRAME + 1>>}
  /\ IF ci + 1 = Len(new_array)
       THEN cpc' = "collect" /\ ci' = 0 /\ temp' = <<>> /\ got' = <<>>
       ELSE cpc' = cpc /\ ci' = ci + 1 /\ temp' = temp /\ got' = got
  /\ UNCHANGED <<pixel, rgb_color, PROCESS, array, frameCap, QUEUE_IN, QUEUE_OUT, EVENT, new_array,
                 STOP_GAME, FRAME, SCREEN, ListenerShift, wpc, shift,
                 rgb_array, emitted, collected>>

\* for i in range(PROCESS): for key, value in QUEUE_OUT.get().items():
\*     temp[str(key)] = value
Collect ==
  /\ cpc = "collect"
  /\ ci < PROCESS
  /\ QUEUE_OUT # <<>>
  /\ LET msg == Head(QUEUE_OUT) IN
       /\ temp' = DictSet(temp, Str(msg.key), msg.value)
       /\ got' = Append(got, <<msg.key, msg.value.cyc>>)
       /\ collected' = Bump(collected, <<msg.key, msg.value.cyc>>)
  /\ QUEUE_OUT' = Tail(QUEUE_OUT)
  /\ IF ci + 1 = PROCESS
       THEN cpc' = "build" /\ ci' = 0
       ELSE cpc' = cpc /\ ci' = ci + 1
  /\ UNCHANGED <<pixel, rgb_color, PROCESS, array, frameCap, QUEUE_IN, EVENT, DATA, new_array,
                 STOP_GAME, FRAME, SCREEN, ListenerShift, wpc, shift,
                 rgb_array, written, emitted>>

\* element = sorted values; blit_array(SCREEN, numpy.hstack(list(element)));
\* FRAME += 1
Build ==
  /\ cpc = "build"
  /\ SCREEN' = hstack(Element(temp))
  /\ FRAME' = FRAME + 1
  /\ cpc' = "loop"
  /\ UNCHANGED <<pixel, rgb_color, PROCESS, array, frameCap, QUEUE_IN, QUEUE_OUT, EVENT, DATA,
                 new_array, ci, STOP_GAME, temp, ListenerShift, wpc, shift,
                 rgb_array, written, emitted, collected, got>>

\* EVENT.set()
SetEvent ==
  /\ cpc = "stop"
  /\ EVENT' = TRUE
  /\ cpc' = "done"
  /\ UNCHANGED <<pixel, rgb_color, PROCESS, array, frameCap, QUEUE_IN, QUEUE_OUT, DATA,
                 new_array, ci, STOP_GAME, FRAME, temp, SCREEN, ListenerShift,
                 wpc, shift, rgb_array, written, emitted, collected, got>>

Coordinator ==
  \/ SplitSurface
  \/ QueueInGet
  \/ PreAssign
  \/ StartListener
  \/ WhileTest
  \/ PollEvents
  \/ Assign
  \/ Collect
  \/ Build
  \/ SetEvent

\* ----------------------------------------------------------- Listener
\* variant of WTest: the loop never tests the event
WTestNoStop(i) ==
  /\ wpc[i] = "test"
  /\ wpc' = [wpc EXCEPT ![i] = "check"]
  /\ UNCHANGED <<pixel, rgb_color, PROCESS, array, frameCap, QUEUE_IN, QUEUE_OUT, EVENT, DATA,
                 new_array, cpc, ci, STOP_GAME, FRAME, temp, SCREEN,
                 ListenerShift, shift, rgb_array, written, emitted, collected,
                 got>>

\* while not self.event.is_set():
WTest(i) ==
  /\ wpc[i] = "test"
  /\ wpc' = [wpc EXCEPT ![i] = IF EVENT THEN "dead" ELSE "check"]
  /\ UNCHANGED <<pixel, rgb_color, PROCESS, array, frameCap, QUEUE_IN, QUEUE_OUT, EVENT, DATA,
                 new_array, cpc, ci, STOP_GAME, FRAME, temp, SCREEN,
                 ListenerShift, shift, rgb_array, written, emitted, collected,
                 got>>

\* if self.data[self.listener_name] is not None:  (else time.sleep(0.005))
WCheck(i) ==
  /\ wpc[i] = "check"
  /\ wpc' = [wpc EXCEPT ![i] = IF DATA[i] # None THEN "read" ELSE "test"]
  /\ UNCHANGED <<pixel, rgb_color, PROCESS, array, frameCap, QUEUE_IN, QUEUE_OUT, EVENT, DATA,
                 new_array, cpc, ci, STOP_GAME, FRAME, temp, SCREEN,
                 ListenerShift, shift, rgb_array, written, emitted, collected,
                 got>>

\* variant of WRead: the event is tested again before the chunk is taken
WReadStop(i) ==
  /\ wpc[i] = "read"
  /\ wpc' = [wpc EXCEPT ![i] = IF EVENT THEN "dead" ELSE "put"]
  /\ rgb_array' = [rgb_array EXCEPT ![i] = DATA[i]]
  /\ UNCHANGED <<pixel, rgb_color, PROCESS, array, frameCap, QUEUE_IN, QUEUE_OUT, EVENT, DATA,
                 new_array, cpc, ci, STOP_GAME, FRAME, temp, SCREEN,
                 ListenerShift, shift, written, emitted, collected, got>>

\* rgb_array = self.data[self.listener_name]
WRead(i) ==
  /\ wpc[i] = "read"
  /\ rgb_array' = [rgb_array EXCEPT ![i] = DATA[i]]
  /\ wpc' = [wpc EXCEPT ![i] = "put"]
  /\ UNCHANGED <<pixel, rgb_color, PROCESS, array, frameCap, QUEUE_IN, QUEUE_OUT, EVENT, DATA,
                 new_array, cpc, ci, STOP_GAME, FRAME, temp, SCREEN,
                 ListenerShift, shift, written, emitted, collected, got>>

\* source_array_ = vectorize_(...); self.out_.put({self.listener_name: source_array_})
WPut(i) ==
  /\ wpc[i] = "put"
  /\ QUEUE_OUT' = Append(QUEUE_OUT,
       [key |-> i,
        value |-> [a |-> Transform(rgb_array[i].a, shift[i]),
                   cyc |-> rgb_array[i].cyc],
        late |-> EVENT])
  /\ emitted' = Bump(emitted, <<i, rgb_array[i].cyc>>)
  /\ wpc' = [wpc EXCEPT ![i] = "clear"]
  /\ UNCHANGED <<pixel, rgb_color, PROCESS, array, frameCap, QUEUE_IN, EVENT, DATA,
                 new_array, cpc, ci, STOP_GAME, FRAME, temp, SCREEN,
                 ListenerShift, shift, rgb_array, written, collected, got>>

\* self.data[self.listener_name] = None
WClear(i) ==
  /\ wpc[i] = "clear"
  /\ DATA' = [DATA EXCEPT ![i] = None]
  /\ wpc' = [wpc EXCEPT ![i] = "shift"]
  /\ UNCHANGED <<pixel, rgb_color, PROCESS, array, frameCap, QUEUE_IN, QUEUE_OUT, EVENT,
                 new_array, cpc, ci, STOP_GAME, FRAME, temp, SCREEN,
                 ListenerShift, shift, rgb_array, written, emitted, collected,
                 got>>

\* variant of NextShift: the shift reduced modulo 1.0
NextShiftWrap(s) == (s + 1) % 100

\* self.shift += 0.01
NextShift(s) == s + 1

\* variant of WShift: the increment goes to a counter shared by all the
\* listeners (the class attribute Listener.shift)
WShiftShared(i) ==
  /\ wpc[i] = "shift"
  /\ shift' = [j \in Names |-> NextShift(shift[j])]
  /\ wpc' = [wpc EXCEPT ![i] = "test"]
  /\ UNCHANGED <<pixel, rgb_color, PROCESS, array, frameCap, QUEUE_IN, QUEUE_OUT, EVENT, DATA,
                 new_array, cpc, ci, STOP_GAME, FRAME, temp, SCREEN,
                 ListenerShift, rgb_array, written, emitted, collected, got>>

\* self.shift += 0.01 ; time.sleep(0.005)
WShift(i) ==
  /\ wpc[i] = "shift"
  /\ shift' = [shift EXCEPT ![i] = NextShift(shift[i])]
  /\ wpc' = [wpc EXCEPT ![i] = "test"]
  /\ UNCHANGED <<pixel, rgb_color, PROCESS, array, frameCap, QUEUE_IN, QUEUE_OUT, EVENT, DATA,
                 new_array, cpc, ci, STOP_GAME, FRAME, temp, SCREEN,
                 ListenerShift, rgb_array, written, emitted, collected, got>>

Listener(i) ==
  \/ WTest(i)
  \/ WCheck(i)
  \/ WRead(i)
  \/ WPut(i)
  \/ WClear(i)
  \/ WShift(i)

Next ==
  \/ Coordinator
  \/ \E i \in Names : Listener(i)

Spec == Init /\ [][Next]_vars

\* the main program and every listener process are scheduled fairly; the
\* loop may run one pass more, so that a pass follows a completed one
InitFair ==
  /\ pixel = <<0, 0, 0>>
  /\ PROCESS \in 1 .. MaxProcess
  /\ array \in {CanonFrame(w) : w \in PROCESS .. MaxWidth}
  /\ frameCap = MaxFrames + 1
  /\ InitRest

FairSpec ==
  /\ InitFair
  /\ [][Next]_vars
  /\ WF_vars(Coordinator)
  /\ \A i \in Names : WF_vars(Listener(i))

\* the same without fairness: every interleaving of MaxFrames + 1 passes
SpecTwo == InitFair /\ [][Next]_vars

\* one listener, one line, run for LongFrames frames
InitLong ==
  /\ pixel = <<0, 0, 0>>
  /\ PROCESS = 1
  /\ array = CanonFrame(1)
  /\ frameCap = LongFrames
  /\ InitRest

SpecLong == InitLong /\ [][Next]_vars

\* the partition alone, over every frame content and process count
Frames == UNION {[1 .. w -> 0 .. PixelMax] : w \in 1 .. SplitMaxWidth}

InitSplit ==
  /\ pixel = <<0, 0, 0>>
  /\ PROCESS \in 1 .. SplitMaxProcess
  /\ array \in Frames
  /\ frameCap = MaxFrames
  /\ InitRest

NextSplit ==
  \/ SplitSurface
  \/ QueueInGet

SpecSplit == InitSplit /\ [][NextSplit]_vars

\* the partition on any process count, zero and negative ones included, and
\* on any frame, the frame with no line on the split axis included
InitShape ==
  /\ pixel = <<0, 0, 0>>
  /\ PROCESS \in -1 .. SplitMaxProcess
  /\ array \in Frames \cup {<<>>}
  /\ frameCap = MaxFrames
  /\ InitRest

SpecShape == InitShape /\ [][NextSplit]_vars

\* ------------------------------------------------------------ shift_hue
\* Exact arithmetic on integers: a hue in degrees is HueNum / diff with
\* diff = max - min of the channels, h * 6 is H6 / (diff * 10000), and the
\* channels returned are counted in 1/10000 of a unit.
Max3(p) == IF p[1] >= p[2] /\ p[1] >= p[3] THEN p[1]
           ELSE IF p[2] >= p[3] THEN p[2] ELSE p[3]

Min3(p) == IF p[1] <= p[2] /\ p[1] <= p[3] THEN p[1]
           ELSE IF p[2] <= p[3] THEN p[2] ELSE p[3]

\* pygame.Color(r, g, b).hsva[0] times diff: 60 * (g - b) / diff (plus 360
\* when negative) if r is the maximum, 60 * (b - r) / diff + 120 if g is,
\* 60 * (r - g) / diff + 240 otherwise
HueNum(p) ==
  LET mx == Max3(p)
      diff == Max3(p) - Min3(p)
      raw == IF mx = p[1] THEN 60 * (p[2] - p[3])
             ELSE IF mx = p[2] THEN 60 * (p[3] - p[1]) + 120 * diff
             ELSE 60 * (p[1] - p[2]) + 240 * diff
  IN IF raw < 0 THEN raw + 360 * diff ELSE raw

\* (hue_[0] * 0.0027 + self.shift) * 6.0 times diff * 10000, the shift s in
\* steps of 0.01
H6(p, s) == HueNum(p) * 162 + s * 600 * (Max3(p) - Min3(p))

\* colorsys.hsv_to_rgb(h, s, v) times 255, with s = hsva[1] * 0.01 =
\* diff / max and v = hsva[2] * 0.01 = max / 255:
\*   i = int(h * 6.0); f = h * 6.0 - i; p = v * (1 - s); q = v * (1 - s * f);
\*   t = v * (1 - s * (1 - f)); the triple chosen by i % 6
shift_hue(p, s) ==
  LET mx == Max3(p)
      mn == Min3(p)
      D == (mx - mn) * 10000
  IN IF mx = mn THEN <<mx * 10000, mx * 10000, mx * 10000>>
     ELSE LET i == H6(p, s) \div D
              F == H6(p, s) % D
              vv == mx * 10000
              pp == mn * 10000
              qq == mx * 10000 - F
              tt == mn * 10000 + F
          IN CASE i % 6 = 0 -> <<vv, tt, pp>>
               [] i % 6 = 1 -> <<qq, vv, pp>>
               [] i % 6 = 2 -> <<pp, vv, tt>>
               [] i % 6 = 3 -> <<pp, qq, vv>>
               [] i % 6 = 4 -> <<tt, pp, vv>>
               [] i % 6 = 5 -> <<vv, pp, qq>>

\* one call self.shift_hue(r, g, b) of listener 0
ShiftHue ==
  /\ rgb_color = <<>>
  /\ rgb_color' = shift_hue(pixel, shift[0])
  /\ UNCHANGED <<pixel, PROCESS, array, frameCap, QUEUE_IN, QUEUE_OUT, EVENT,
                 DATA, new_array, cpc, ci, STOP_GAME, FRAME, temp, SCREEN,
                 ListenerShift, wpc, shift, rgb_array, written, emitted,
                 collected, got>>

\* the channel values 0, 255 \div HueLevels, ..., 255
Channels == {(k * 255) \div HueLevels : k \in 0 .. HueLevels}

InitHue ==
  /\ pixel \in Channels \X Channels \X Channels
  /\ PROCESS = 1
  /\ array = CanonFrame(1)
  /\ frameCap = MaxFrames
  /\ InitRest

NextHue == ShiftHue

SpecHue == InitHue /\ [][NextHue]_vars

\* ---------------------------------------------------------------- claims
Workers == 0 .. (PROCESS - 1)

\* the listener names of the messages taken for the current frame
GotKeys == [j \in 1 .. Len(got) |-> got[j][1]]

TimesGot(i) == Cardinality({j \in 1 .. Len(got) : got[j][1] = i})

\* number of messages listener i has put so far
RECURSIVE SumOver(_, _)
SumOver(f, S) ==
  IF S = {} THEN 0
  ELSE LET x == CHOOSE y \in S : TRUE IN f[x] + SumOver(f, S \ {x})

NPut(i) == SumOver(emitted, {x \in DOMAIN emitted : x[1] = i})

\* the lines of a transformed array, without the shift applied to them
Lines(a) == [j \in 1 .. Len(a) |-> a[j][1]]

\* C1: when the main program has taken its PROCESS messages for a frame,
\* they are exactly one message of each listener 0 .. PROCESS-1.
C1_OnePerWorker ==
  cpc = "build" => \A i \in Workers : TimesGot(i) = 1

\* C2: every chunk written into a cell gives exactly one message: a written
\* chunk that has no message yet is still in its cell or in the hands of its
\* listener, and no written chunk has two messages.
C2_ExactlyOncePerAssignment ==
  \A x \in written :
    /\ Cnt(emitted, x) <= 1
    /\ Cnt(emitted, x) = 0 =>
         \/ DATA[x[1]] # None /\ DATA[x[1]].cyc = x[2]
         \/ wpc[x[1]] = "put" /\ rgb_array[x[1]].cyc = x[2]

\* C3: under fair scheduling every collection that has started finishes:
\* the PROCESS blocking QUEUE_OUT.get() calls all return.
C3_CollectionFinishes == (cpc = "collect") ~> (cpc = "build")

\* C4: no chunk of fan-out c+1 is in a cell, and no message made from one is
\* on QUEUE_OUT, before the results of all PROCESS chunks of fan-out c have
\* been taken by the main program (the fan-out before the listeners start
\* is fan-out 0).
AllCollected(c) == \A j \in Workers : Cnt(collected, <<j, c>>) >= 1

C4_CycleBarrier ==
  /\ \A x \in written : x[2] >= 1 => AllCollected(x[2] - 1)
  /\ \A j \in 1 .. Len(QUEUE_OUT) :
       QUEUE_OUT[j].value.cyc >= 1 => AllCollected(QUEUE_OUT[j].value.cyc - 1)

\* C5: every frame given to the screen is the concatenation of exactly
\* PROCESS transformed chunks and has the extent of the input frame on the
\* split axis.
C5_OutputShape ==
  /\ cpc = "build" => Len(Element(temp)) = PROCESS
  /\ FRAME >= 1 => Len(SCREEN) = Len(array)

\* C6: whatever the order in which one message of each listener arrives,
\* the items are ordered by ascending int(key), so that position i of the
\* output holds the transform of chunk i: the lines of the frame given to the
\* screen are the lines of the input frame in their order.
PermArrival ==
  /\ Len(got) = PROCESS
  /\ \A i \in Workers : TimesGot(i) = 1

C6_RecombinationOrder ==
  /\ (cpc = "build" /\ PermArrival) =>
       \A i \in Workers :
         /\ SortedItems(temp)[i + 1].key = Str(i)
         /\ Lines(Element(temp)[i + 1]) = new_array[i + 1]
  /\ (FRAME >= 1 /\ cpc \in {"loop", "events", "stop", "done"} /\ PermArrival) =>
       Lines(SCREEN) = array

C6_Witness ==
  /\ FRAME >= 1
  /\ cpc = "loop"
  /\ PROCESS = 2
  /\ Len(array) >= 2
  /\ GotKeys = <<1, 0>>
  /\ Lines(SCREEN) = array

\* C7: split_non_equal gives PROCESS chunks whose widths sum to the extent
\* w of the frame, each width is w \div n or w \div n + 1, exactly w % n
\* chunks have the larger width and they are the first ones.
RECURSIVE SumLen(_)
SumLen(chunks) ==
  IF Len(chunks) = 0 THEN 0 ELSE Len(Head(chunks)) + SumLen(Tail(chunks))

C7_PartitionExact ==
  cpc = "preassign" =>
    LET w == Len(array)
        n == PROCESS
    IN /\ Len(new_array) = n
       /\ SumLen(new_array) = w
       /\ \A i \in 1 .. n : Len(new_array[i]) \in {w \div n, (w \div n) + 1}
       /\ Cardinality({i \in 1 .. n : Len(new_array[i]) = (w \div n) + 1}) = w % n
       /\ \A i \in 1 .. n : (Len(new_array[i]) = (w \div n) + 1) <=> (i <= w % n)

C7_Witness ==
  /\ cpc = "preassign"
  /\ PROCESS = 3
  /\ Len(array) = 5
  /\ [i \in 1 .. 3 |-> Len(new_array[i])] = <<2, 2, 1>>

\* C8: concatenating the chunks of split_non_equal in their order with
\* numpy.hstack, no transform applied, gives back the frame.
C8_SplitMergeIdentity ==
  cpc = "preassign" => hstack(new_array) = array

C8_Witness ==
  /\ cpc = "preassign"
  /\ PROCESS = 2
  /\ array = <<0, 1, 1>>
  /\ new_array = << <<0, 1>>, <<1>> >>
  /\ hstack(new_array) = array

\* C9: when the main program has completed k frames and no listener is in the
\* middle of a job, the shift of every listener is (k * 0.01) mod 1.0.
Quiet(i) == wpc[i] \in {"test", "check"} /\ DATA[i] = None

C9_PhaseAccumulation ==
  (cpc = "loop" /\ FRAME >= 1 /\ \A i \in Workers : Quiet(i)) =>
    \A i \in Workers : shift[i] = FRAME % 100

C11_PoolStartState ==
  \A i \in Workers :
    /\ (cpc = "start" /\ wpc[i] = "unborn") => (i \in DOMAIN DATA => DATA[i] = None)
    /\ (wpc[i] # "unborn" /\ NPut(i) = 0) => shift[i] = 0
    /\ NPut(i) >= 1 => <<i, 1>> \in written

\* C12: the stop event is honoured only between jobs: a listener leaves its
\* loop only from the test at the top of the loop with the event set; from
\* any later position of a pass (read, put, clear, shift) its next step is the
\* next line of the pass, whether or not the event is set, so a chunk read is
\* always put and its cell cleared.
PassOrder(p) ==
  CASE p = "read" -> "put"
    [] p = "put" -> "clear"
    [] p = "clear" -> "shift"
    [] p = "shift" -> "test"

C12_StopBetweenJobs ==
  [][\A i \in Names :
       /\ (wpc'[i] = "dead" /\ wpc[i] # "dead") => (wpc[i] = "test" /\ EVENT)
       /\ (wpc[i] \in {"read", "put", "clear", "shift"} /\ wpc'[i] # wpc[i]) =>
            wpc'[i] = PassOrder(wpc[i])
       /\ (wpc[i] = "put" /\ wpc'[i] = "clear") =>
            Len(QUEUE_OUT') = Len(QUEUE_OUT) + 1
       /\ (wpc[i] = "clear" /\ wpc'[i] = "shift") => DATA'[i] = None]_vars

\* the event was set while listener 0 held a chunk: its message was put with
\* the event set, its cell is cleared and it has left its loop
C12_Witness ==
  /\ EVENT
  /\ wpc[0] = "dead"
  /\ DATA[0] = None
  /\ \E j \in 1 .. Len(QUEUE_OUT) : QUEUE_OUT[j].key = 0 /\ QUEUE_OUT[j].late

\* C13: once the event is set, under fair scheduling every listener leaves
\* its loop; a listener that has left its loop stays out of it, puts no
\* further message and does not write its cell again.
AllStopped == \A i \in Workers : wpc[i] = "dead"

C13_Shutdown ==
  /\ EVENT ~> AllStopped
  /\ [][\A i \in Names :
          wpc[i] = "dead" =>
            /\ wpc'[i] = "dead"
            /\ Cnt(emitted', <<i, 0>>) = Cnt(emitted, <<i, 0>>)
            /\ \A c \in 1 .. FRAME + 1 :
                 Cnt(emitted', <<i, c>>) = Cnt(emitted, <<i, c>>)
            /\ DATA'[i] = DATA[i]]_vars

C13_Witness ==
  /\ EVENT
  /\ PROCESS = 2
  /\ AllStopped
  /\ cpc = "done"

\* C14: the partition of a frame with no line on an axis, or with a process
\* count <= 0, fails before any chunk is put on QUEUE_IN or written to a
\* cell.
C14_InvalidShapeRejected ==
  (PROCESS <= 0 \/ Len(array) = 0) =>
    /\ cpc \in {"split", "error"}
    /\ QUEUE_IN = <<>>
    /\ new_array = <<>>
    /\ DATA = <<>>

\* C15: shift_hue with shift 0 returns a pixel whose every channel differs
\* from the channel given by at most 1.
C15_HueIdentity ==
  rgb_color # <<>> =>
    \A c \in 1 .. 3 :
      /\ rgb_color[c] - pixel[c] * 10000 <= 10000
      /\ pixel[c] * 10000 - rgb_color[c] <= 10000

\* C16: whenever the main program writes a chunk into cell i, the cell is
\* empty and listener i is idle; in particular, when a collection has
\* finished every listener is idle with an empty cell.
Idle(i) == wpc[i] \in {"unborn", "test", "check"}

C16_SlotEmptyAtAssignment ==
  /\ [][\A i \in Workers :
          (cpc = "assign" /\ ci = i /\ DATA'[i] # DATA[i] /\ DATA'[i] # None) =>
            (DATA[i] = None /\ Idle(i))]_vars
  /\ [](cpc = "build" => \A i \in Workers : DATA[i] = None /\ Idle(i))

\* C17: in each pass of the main loop all PROCESS cells are written, cell 0
\* to cell PROCESS-1 in that order, before the first message of the pass is
\* taken from QUEUE_OUT.
\* number of messages the main program has taken so far
NCollected == SumOver(collected, DOMAIN collected)

WrittenInPass == {i \in Workers : <<i, FRAME + 1>> \in written}

C17_FanOutBeforeFanIn ==
  /\ cpc = "assign" => (WrittenInPass = 0 .. (ci - 1) /\ NCollected = FRAME * PROCESS)
  /\ NCollected > FRAME * PROCESS => WrittenInPass = Workers
  /\ cpc \in {"collect", "build"} => WrittenInPass = Workers

C17_Witness ==
  /\ PROCESS = 2
  /\ cpc = "collect"
  /\ ci = 1
  /\ Len(got) = 1
  /\ WrittenInPass = {0, 1}

\* C18: the steps in which listener i completes a chunk (put, clear, shift)
\* change only cell i, the shift of listener i and QUEUE_OUT: every other
\* cell and every other shift is unchanged; and no step of the main program
\* changes the shift of a listener that has been started.
C18_WorkerLocalEffects ==
  [][/\ \A i \in Names :
          (wpc[i] \in {"put", "clear", "shift"} /\ wpc'[i] # wpc[i]) =>
            /\ \A j \in Names \ {i} :
                 /\ shift'[j] = shift[j]
                 /\ j \in DOMAIN DATA => DATA'[j] = DATA[j]
            /\ UNCHANGED <<QUEUE_IN, EVENT, new_array, temp, SCREEN, FRAME,
                           STOP_GAME, cpc, ci>>
     /\ cpc' # cpc \/ ci' # ci =>
          \A j \in Names : wpc[j] # "unborn" => shift'[j] = shift[j]]_vars

\* listener 0 has completed a chunk while listener 1 still has its chunk in
\* its cell and its shift at 0
C18_Witness ==
  /\ PROCESS = 2
  /\ shift[0] = 1
  /\ wpc[0] = "test"
  /\ shift[1] = 0
  /\ wpc[1] # "unborn"
  /\ DATA[1] # None
  /\ DATA[0] = None

C20_BoundedResultQueue ==
  /\ Len(QUEUE_OUT) <= PROCESS
  /\ \A j, k \in 1 .. Len(QUEUE_OUT) :
       QUEUE_OUT[j].key = QUEUE_OUT[k].key => j = k
  /\ cpc = "build" => QUEUE_OUT = <<>>

====
